---- MODULE Spec2Model ----
(***************************************************************************)
(* Natural-breaks (Jenks) classification of src/tabs/MapTab.vue:           *)
(* calculateNaturalBreaks, assignLevelsToFeatures, ensureHexData2Levels,   *)
(* loadHexData2 and the display-mode branches that call them.              *)
(*                                                                         *)
(* Numbers are integers.  The JavaScript value Infinity is the integer     *)
(* Infinity below, larger than every finite number of the model.  The      *)
(* within-class sums of squared deviations are fractions with denominators *)
(* 1..n; the model keeps them exactly, as integers in units of             *)
(* 1 / Denominator(n), so comparisons are those of exact arithmetic.       *)
(*                                                                         *)
(* The code computes in IEEE doubles.  Where rounding can change what the  *)
(* code does, the model takes every outcome: with arithmetic = "double"    *)
(* (integer observations) totals that are equal exactly compare either     *)
(* way; with arithmetic = "rounded" the observations are the model's       *)
(* numbers in a unit that is no integer (tenths, say), the running sums    *)
(* are rounded, and besides that a deviation that is 0 exactly may come    *)
(* out below 0.                                                            *)
(***************************************************************************)
EXTENDS Integers, Sequences, FiniteSets, TLC

VARIABLES
    hexData2,        \* ref hexData2: null or the parsed GeoJSON object
    hexData2Stats,   \* ref hexData2Stats: {min, max, positiveCount}
    hexData2Breaks,  \* ref hexData2Breaks: the stored breaks
    values,          \* argument `values` of the last calculateNaturalBreaks call
    classCount,      \* argument `classCount` of that call
    breaks,          \* its return value / argument `breaks` of assignLevelsToFeatures
    features,        \* argument `features` of a direct assignLevelsToFeatures call
    branch,          \* the branch the last call of calculateNaturalBreaks or
                     \* ensureHexData2Levels returned by
    arithmetic,      \* "exact", or "double": totals that are equal in exact
                     \* arithmetic compare either way once rounded, or
                     \* "rounded": also, a deviation of 0 may come out negative
    error,           \* exception that propagated out of the last call, or "none"
    pc               \* position of the run

vars == <<hexData2, hexData2Stats, hexData2Breaks,
          values, classCount, breaks, features, branch, arithmetic, error, pc>>

(***************************************************************************)
(* Bounds of the model.                                                    *)
(***************************************************************************)
MaxValue == 4        \* observations of the bounded inputs are in 1..MaxValue
MaxLen == 4          \* longest bounded observation array
MaxClassCount == 3   \* largest classCount of a direct call
MaxFeatures == 2     \* longest enumerated feature collection
MaxBreaks == 3       \* longest enumerated breaks argument
MaxBreakValue == 3   \* enumerated breaks arguments have entries in 1..MaxBreakValue
MaxAttribute == 3    \* enumerated numeric attributes are in -1..MaxAttribute
RampLen == 8         \* length of the long feature collections

(***************************************************************************)
(* JavaScript values.                                                      *)
(***************************************************************************)
Infinity == 1000000000

\* Every JavaScript value that is not a number is a record with a tag.
null == [tag |-> "null"]

undefined == [tag |-> "undefined"]

\* What a call that throws ends with, in place of a returned value
thrown == [tag |-> "thrown"]

Array(s) == [tag |-> "array", items |-> s]

AttributeKey == "same_sex_couples_total"

LevelKey == "pride_level"

prideColors == <<"#750787", "#004DFF", "#008026", "#FFED00", "#FF8C00", "#E40303">>

isFinite(v) == v # Infinity

isArray(a) == a.tag = "array"

Range(s) == {s[i] : i \in DOMAIN s}

\* Mutant: the first element is taken for the smallest
MathMin_First(xs) == xs[1]

\* Mutant: the last element is taken for the largest
MathMax_Last(xs) == xs[Len(xs)]

\* Math.min(...xs) and Math.max(...xs) of a non-empty array
MathMin(xs) == CHOOSE m \in Range(xs) : \A x \in Range(xs) : m <= x

MathMax(xs) == CHOOSE m \in Range(xs) : \A x \in Range(xs) : m >= x

\* Mutant: the array is left in the order given
SortAscending_None(s) == s

\* Array.prototype.sort((a, b) => a - b) on finite numbers: insertion into an
\* ascending result, equal elements keeping their order.
RECURSIVE InsertSorted(_, _)
InsertSorted(s, x) ==
    IF s = <<>> THEN <<x>>
    ELSE IF x < Head(s) THEN <<x>> \o s
    ELSE <<Head(s)>> \o InsertSorted(Tail(s), x)

RECURSIVE SortAscending(_)
SortAscending(s) ==
    IF s = <<>> THEN <<>>
    ELSE InsertSorted(SortAscending(SubSeq(s, 1, Len(s) - 1)), s[Len(s)])

\* Mutant: duplicates are kept
UniqueValues_Keep(s) == s

\* Array.from(new Set(sorted)): first occurrences, in insertion order.
RECURSIVE UniqueValues(_)
UniqueValues(s) ==
    IF s = <<>> THEN <<>>
    ELSE LET rest == UniqueValues(SubSeq(s, 1, Len(s) - 1))
             x == s[Len(s)]
         IN  IF x \in Range(rest) THEN rest ELSE Append(rest, x)

(***************************************************************************)
(* calculateNaturalBreaks                                                  *)
(***************************************************************************)
\* Least common multiple of 1..n: the unit 1 / Denominator(n) in which the
\* model keeps the quotients (sum * sum) / i and (sumRange * sumRange) / count.
RECURSIVE Gcd(_, _)
Gcd(a, b) == IF b = 0 THEN a ELSE Gcd(b, a % b)

RECURSIVE Denominator(_)
Denominator(n) ==
    IF n <= 1 THEN 1
    ELSE LET d == Denominator(n - 1) IN (d \div Gcd(d, n)) * n

\* x + y of JavaScript numbers that may be Infinity
Plus(x, y) == IF x = Infinity \/ y = Infinity THEN Infinity ELSE x + y

\* Mutant: the square of the sum is not subtracted
Deviation_NoMean(sumSquaresRange, sumRange, count, unit) == unit * sumSquaresRange

\* sumSquares - (sum * sum) / count, in units of 1 / unit
Deviation(sumSquaresRange, sumRange, count, unit) ==
    unit * sumSquaresRange - (unit \div count) * (sumRange * sumRange)

\* Mutant: the padding stops one entry short
PadBreaks_Short(b, last, classCnt) ==
    b \o [j \in 1..(classCnt - Len(b)) |-> last]

\* lines 417-424: the distinct values, padded with the last one
RECURSIVE PadBreaks(_, _, _)
PadBreaks(b, last, classCnt) ==
    IF Len(b) < classCnt + 1 THEN PadBreaks(Append(b, last), last, classCnt) ELSE b

\* Mutant: the padding repeats the smallest value
DegenerateBreaks_PadFirst(uniqueValues, classCnt) ==
    PadBreaks(uniqueValues, uniqueValues[1], classCnt)

DegenerateBreaks(uniqueValues, classCnt) ==
    PadBreaks(uniqueValues, uniqueValues[Len(uniqueValues)], classCnt)

\* lines 427-440: the two (n + 1) x (classCount + 1) tables after the first loop
InitialLowerClassLimits(n, classCnt) ==
    [i \in 0..n |-> [c \in 0..classCnt |-> IF i = 1 /\ c >= 1 THEN 1 ELSE 0]]

InitialVarianceCombinations(n, classCnt) ==
    [i \in 0..n |-> [c \in 0..classCnt |-> IF i >= 2 /\ c >= 1 THEN Infinity ELSE 0]]

\* lines 442-448: running sums sum[i], sumSquares[i]
RECURSIVE PrefixSum(_, _)
PrefixSum(sorted, i) == IF i = 0 THEN 0 ELSE PrefixSum(sorted, i - 1) + sorted[i]

RECURSIVE PrefixSumSquares(_, _)
PrefixSumSquares(sorted, i) ==
    IF i = 0 THEN 0 ELSE PrefixSumSquares(sorted, i - 1) + sorted[i] * sorted[i]

\* Mutant: the first class starts at its own last observation
FirstClassColumn_Last(T, sum, sumSquares, n, unit) ==
    [lowerClassLimits |->
        [i \in 0..n |-> IF i >= 1 THEN [T.lowerClassLimits[i] EXCEPT ![1] = i]
                        ELSE T.lowerClassLimits[i]],
     varianceCombinations |->
        [i \in 0..n |-> IF i >= 1
                        THEN [T.varianceCombinations[i] EXCEPT
                                 ![1] = Deviation(sumSquares[i], sum[i], i, unit)]
                        ELSE T.varianceCombinations[i]],
     tiedLowerLimits |->
        [i \in 0..n |-> IF i >= 1 THEN [T.tiedLowerLimits[i] EXCEPT ![1] = {i}]
                        ELSE T.tiedLowerLimits[i]]]

\* lines 445-451: column 1 of the tables.  Besides the two tables of the code,
\* tiedLowerLimits[i][c] is the set of split indices whose total equals
\* varianceCombinations[i][c] exactly: the values lowerClassLimits[i][c] can end
\* with when the totals are rounded doubles.
FirstClassColumn(T, sum, sumSquares, n, unit) ==
    [lowerClassLimits |->
        [i \in 0..n |-> IF i >= 1 THEN [T.lowerClassLimits[i] EXCEPT ![1] = 1]
                        ELSE T.lowerClassLimits[i]],
     varianceCombinations |->
        [i \in 0..n |-> IF i >= 1
                        THEN [T.varianceCombinations[i] EXCEPT
                                 ![1] = Deviation(sumSquares[i], sum[i], i, unit)]
                        ELSE T.varianceCombinations[i]],
     tiedLowerLimits |->
        [i \in 0..n |-> IF i >= 1 THEN [T.tiedLowerLimits[i] EXCEPT ![1] = {1}]
                        ELSE T.tiedLowerLimits[i]]]

\* Mutant: a candidate replaces the best one also when it only equals it
Improves_OrEqual(totalVariance, variance) == totalVariance <= variance

\* line 470: a candidate replaces the best one only on strict improvement
Improves(totalVariance, variance) == totalVariance < variance

\* lines 458-474: the scan of the split index i from item down to classes.
\* negative holds the segments <<i, item>> whose deviation, 0 exactly, the
\* rounded running sums make negative.
RECURSIVE ScanSplits(_, _, _, _, _, _, _, _, _)
ScanSplits(vc, sum, sumSquares, unit, item, classes, i, best, negative) ==
    IF i < classes THEN best
    ELSE LET count == item - i + 1
             sumRange == sum[item] - sum[i - 1]
             sumSquaresRange == sumSquares[item] - sumSquares[i - 1]
             currentVariance == Deviation(sumSquaresRange, sumRange, count, unit)
             totalVariance == Plus(currentVariance, vc[i - 1][classes - 1])
             next == IF currentVariance < 0 \/ <<i, item>> \in negative THEN best
                     ELSE IF Improves(totalVariance, best.variance)
                          THEN [variance |-> totalVariance, bestLowerClass |-> i,
                                tied |-> {i}]
                          ELSE IF totalVariance = best.variance /\ isFinite(totalVariance)
                               THEN [best EXCEPT !.tied = @ \cup {i}]
                               ELSE best
         IN  ScanSplits(vc, sum, sumSquares, unit, item, classes, i - 1, next, negative)

\* lines 454-478: one column (classes) of the tables, item = classes..n
RECURSIVE FillItems(_, _, _, _, _, _, _, _)
FillItems(T, sum, sumSquares, unit, n, classes, item, negative) ==
    IF item > n THEN T
    ELSE LET best == ScanSplits(T.varianceCombinations, sum, sumSquares, unit, item,
                                classes, item,
                                [variance |-> Infinity, bestLowerClass |-> classes - 1,
                                 tied |-> {classes - 1}], negative)
             filled == [lowerClassLimits |->
                           [T.lowerClassLimits EXCEPT ![item][classes] = best.bestLowerClass],
                        varianceCombinations |->
                           [T.varianceCombinations EXCEPT ![item][classes] = best.variance],
                        tiedLowerLimits |->
                           [T.tiedLowerLimits EXCEPT ![item][classes] = best.tied]]
         IN  FillItems(filled, sum, sumSquares, unit, n, classes, item + 1, negative)

\* lines 453-479: columns classes = 2..classCount
RECURSIVE FillClasses(_, _, _, _, _, _, _, _)
FillClasses(T, sum, sumSquares, unit, n, classCnt, classes, negative) ==
    IF classes > classCnt THEN T
    ELSE FillClasses(FillItems(T, sum, sumSquares, unit, n, classes, classes, negative),
                     sum, sumSquares, unit, n, classCnt, classes + 1, negative)

\* lines 427-479: the filled tables for a sorted array, with the segments of
\* negative computed below 0
JenksTablesWith(sorted, classCnt, negative) ==
    LET n == Len(sorted)
        unit == Denominator(n)
        sum == [i \in 0..n |-> PrefixSum(sorted, i)]
        sumSquares == [i \in 0..n |-> PrefixSumSquares(sorted, i)]
        T0 == [lowerClassLimits |-> InitialLowerClassLimits(n, classCnt),
               varianceCombinations |-> InitialVarianceCombinations(n, classCnt),
               tiedLowerLimits |->
                   [i \in 0..n |-> [c \in 0..classCnt |->
                       {InitialLowerClassLimits(n, classCnt)[i][c]}]]]
        T1 == FirstClassColumn(T0, sum, sumSquares, n, unit)
    IN  FillClasses(T1, sum, sumSquares, unit, n, classCnt, 2, negative)

\* The tables when no deviation is computed below 0
JenksTables(sorted, classCnt) == JenksTablesWith(sorted, classCnt, {})

\* line 462: the segments the scan visits whose deviation is 0 exactly, those
\* of equal values
ZeroSegments(sorted) ==
    {seg \in (2..Len(sorted)) \X (2..Len(sorted)) :
        seg[1] <= seg[2] /\ sorted[seg[1]] = sorted[seg[2]]}

\* line 464: the sets of segments currentVariance < 0 can hold for
ComputedNegative(sorted, arith) ==
    IF arith = "rounded" THEN SUBSET ZeroSegments(sorted) ELSE {{}}

\* The values lowerClassLimits[k][count] can hold: the entry computed with exact
\* totals, or, with doubles, any split index tied with it.
LowerLimits(T, arith, k, count) ==
    IF arith \in {"double", "rounded"} THEN T.tiedLowerLimits[k][count]
    ELSE {T.lowerClassLimits[k][count]}

\* Mutant: the break is the last value of the class below
BreakAt_Previous(sorted, idx) == sorted[IF idx > 1 THEN idx - 1 ELSE 1]

\* line 489: the break written for the class whose lower limit is idx,
\* sorted[idx - 1] of the code; outside the array the read gives undefined
BreakAt(sorted, idx) == IF idx \in DOMAIN sorted THEN sorted[idx] ELSE undefined

\* lines 496-500: a break below its predecessor is raised to it
RECURSIVE ClampMonotone(_, _)
ClampMonotone(b, i) ==
    IF i > Len(b) THEN b
    ELSE ClampMonotone(IF b[i] < b[i - 1] THEN [b EXCEPT ![i] = b[i - 1]] ELSE b, i + 1)

\* lines 494-502
FinishBreaks(b, sorted) == ClampMonotone([b EXCEPT ![1] = sorted[1]], 2)

\* lines 484-502: backtracking, count = classCount down to 1, then the
\* post-processing; the set of arrays the loop can end with.  With k = -1
\* lowerClassLimits[k] is undefined and line 488 throws a TypeError.
RECURSIVE Backtrack(_, _, _, _, _, _)
Backtrack(T, arith, sorted, b, k, count) ==
    IF count > 0
    THEN IF k < 0 THEN {thrown}
         ELSE UNION {Backtrack(T, arith, sorted, [b EXCEPT ![count] = BreakAt(sorted, idx)],
                               idx - 1, count - 1) : idx \in LowerLimits(T, arith, k, count)}
    ELSE {Array(FinishBreaks(b, sorted))}

\* lines 484-492: the values idx takes, limits[count] for each count: the
\* lower limits of the classes the loop walks through, up to the step that
\* throws if one does
RECURSIVE BacktrackLimits(_, _, _, _, _)
BacktrackLimits(T, arith, limits, k, count) ==
    IF count > 0 /\ k >= 0
    THEN UNION {BacktrackLimits(T, arith, [limits EXCEPT ![count] = idx], idx - 1, count - 1) :
                   idx \in LowerLimits(T, arith, k, count)}
    ELSE {limits}

\* lines 427-502.  The JavaScript array breaks[0..classCount] is the sequence
\* b[1..classCount + 1]: breaks[j] is b[j + 1].
JenksBreaks(sorted, classCnt, arith) ==
    LET b0 == [j \in 1..(classCnt + 1) |->
                  IF j = classCnt + 1 THEN sorted[Len(sorted)] ELSE 0]
    IN  UNION {Backtrack(JenksTablesWith(sorted, classCnt, negative), arith, sorted, b0,
                         Len(sorted), classCnt) :
                  negative \in ComputedNegative(sorted, arith)}

\* Mutant: an array with a single finite value is taken for an empty one
NoFiniteValue_One(sorted) == Len(sorted) <= 1

\* line 411: nothing is left after the filter
NoFiniteValue(sorted) == Len(sorted) = 0

\* line 416: the test that selects the degenerate path
IsDegenerate(uniqueValues, classCnt) == Len(uniqueValues) <= classCnt

\* lines 404-503: the returns the call can make, each with the return
\* statement taken.  With arith = "exact" there is one.
calculateNaturalBreaks(vals, classCnt, arith) ==
    IF ~isArray(vals) \/ Len(vals.items) = 0
    THEN {[result |-> null, branch |-> "not_array_or_empty"]}
    ELSE LET sorted == SortAscending(SelectSeq(vals.items, isFinite))
             uniqueValues == UniqueValues(sorted)
         IN  IF NoFiniteValue(sorted)
             THEN {[result |-> null, branch |-> "no_finite_value"]}
             ELSE IF IsDegenerate(uniqueValues, classCnt)
             THEN {[result |-> Array(DegenerateBreaks(uniqueValues, classCnt)),
                    branch |-> "degenerate"]}
             ELSE {[result |-> b, branch |-> "dynamic_programming"] :
                      b \in JenksBreaks(sorted, classCnt, arith)}

(***************************************************************************)
(* Features and the coercion Number(feature?.properties?.[key]) || 0       *)
(***************************************************************************)
Num(n) == [tag |-> "number", value |-> n]

\* A string is the sequence of its characters.
Str(chars) == [tag |-> "string", chars |-> chars]

Digits == <<"0", "1", "2", "3", "4", "5", "6", "7", "8", "9">>

DigitValue(ch) == (CHOOSE d \in DOMAIN Digits : Digits[d] = ch) - 1

\* The decimal value of a non-empty sequence of digits
RECURSIVE DecimalValue(_)
DecimalValue(chars) ==
    IF chars = <<>> THEN 0
    ELSE 10 * DecimalValue(SubSeq(chars, 1, Len(chars) - 1)) + DigitValue(chars[Len(chars)])

\* Number(x): [nan |-> TRUE] for NaN, else the number.  The empty string and
\* null give 0, undefined and a string that is no numeral give NaN.
Number(x) ==
    CASE x.tag = "number" -> [nan |-> FALSE, value |-> x.value]
      [] x.tag = "null" -> [nan |-> FALSE, value |-> 0]
      [] x.tag = "string" ->
            IF \A i \in DOMAIN x.chars : x.chars[i] \in Range(Digits)
            THEN [nan |-> FALSE, value |-> DecimalValue(x.chars)]
            ELSE [nan |-> TRUE, value |-> 0]
      [] OTHER -> [nan |-> TRUE, value |-> 0]

\* x || 0 for a number x: NaN and 0 are falsy
OrZero(n) == IF n.nan \/ n.value = 0 THEN 0 ELSE n.value

\* feature?.properties
PropertiesOf(feature) ==
    IF feature.tag = "object" /\ "properties" \in DOMAIN feature
    THEN feature.properties ELSE undefined

\* feature?.properties?.[key]; a properties map has no "tag" key
Lookup(feature, key) ==
    LET properties == PropertiesOf(feature)
    IN  IF "tag" \notin DOMAIN properties /\ key \in DOMAIN properties
        THEN properties[key] ELSE undefined

\* Mutant: the level is read where the feature carries one
FeatureValue_OrLevel(feature) ==
    IF Lookup(feature, LevelKey) # undefined
    THEN OrZero(Number(Lookup(feature, LevelKey)))
    ELSE OrZero(Number(Lookup(feature, AttributeKey)))

\* lines 376, 514, 544
FeatureValue(feature) == OrZero(Number(Lookup(feature, AttributeKey)))

(***************************************************************************)
(* assignLevelsToFeatures                                                  *)
(***************************************************************************)
\* Mutant: the upper bound is exclusive
InInterval_Exclusive(value, lower, upper) == value >= lower /\ value < upper

\* line 520: the interval test, both bounds inclusive
InInterval(value, lower, upper) == value >= lower /\ value <= upper

\* Mutant: the loop stops one interval early
RECURSIVE ScanIntervals_SkipLast(_, _, _)
ScanIntervals_SkipLast(value, b, i) ==
    IF i > Len(b) - 2 THEN 0
    ELSE IF value >= b[i] /\ value <= b[i + 1] THEN i
    ELSE ScanIntervals_SkipLast(value, b, i + 1)

\* lines 517-524: b[i], b[i + 1] are breaks[i - 1], breaks[i]; the level of the
\* first interval that holds the value, 0 when there is none
RECURSIVE ScanIntervals(_, _, _)
ScanIntervals(value, b, i) ==
    IF i > Len(b) - 1 THEN 0
    ELSE IF InInterval(value, b[i], b[i + 1]) THEN i
    ELSE ScanIntervals(value, b, i + 1)

\* Mutant: the level of interval i is taken as i + 2
LevelFor_OffByOne(value, b) ==
    IF value > 0 /\ ScanIntervals(value, b, 1) # 0 THEN ScanIntervals(value, b, 1) + 1 ELSE 0

\* lines 514-525
LevelFor(value, b) == IF value > 0 THEN ScanIntervals(value, b, 1) ELSE 0

\* Mutant: the properties are replaced, not spread
WithLevel_Only(feature, level) ==
    [k \in DOMAIN feature \cup {"properties"} |->
        IF k = "properties" THEN [key \in {LevelKey} |-> Num(level)] ELSE feature[k]]

\* Mutant: the level is added to the level the feature already carries
WithLevel_Add(feature, level) ==
    LET properties == PropertiesOf(feature)
        keys == IF "tag" \in DOMAIN properties THEN {} ELSE DOMAIN properties
        old == IF LevelKey \in keys THEN properties[LevelKey].value ELSE 0
    IN  [k \in DOMAIN feature \cup {"properties"} |->
            IF k = "properties"
            THEN [key \in keys \cup {LevelKey} |->
                     IF key = LevelKey THEN Num(old + level) ELSE properties[key]]
            ELSE feature[k]]

\* lines 526-529: { ...feature.properties, pride_level: level }
WithLevel(feature, level) ==
    LET properties == PropertiesOf(feature)
        keys == IF "tag" \in DOMAIN properties THEN {} ELSE DOMAIN properties
    IN  [k \in DOMAIN feature \cup {"properties"} |->
            IF k = "properties"
            THEN [key \in keys \cup {LevelKey} |->
                     IF key = LevelKey THEN Num(level) ELSE properties[key]]
            ELSE feature[k]]

\* lines 513-530: forEach, left to right; the assignment feature.properties = ...
\* throws a TypeError on a null entry, which ends the loop
RECURSIVE ForEachFeature(_, _, _)
ForEachFeature(items, b, i) ==
    IF i > Len(items) THEN [items |-> items, error |-> "none"]
    ELSE IF items[i].tag # "object" THEN [items |-> items, error |-> "TypeError"]
    ELSE ForEachFeature(
             [items EXCEPT ![i] = WithLevel(items[i], LevelFor(FeatureValue(items[i]), b))],
             b, i + 1)

\* lines 508-531: the features after the call and the exception it threw
assignLevelsToFeatures(feats, brks) ==
    IF ~isArray(feats) \/ ~isArray(brks) \/ Len(brks.items) < 2
    THEN [features |-> feats, error |-> "none"]
    ELSE LET r == ForEachFeature(feats.items, brks.items, 1)
         IN  [features |-> Array(r.items), error |-> r.error]

(***************************************************************************)
(* ensureHexData2Levels and loadHexData2                                   *)
(***************************************************************************)
\* hexData2.value.features
FeaturesField(data) == IF "features" \in DOMAIN data THEN data.features ELSE undefined

\* Mutant: zero passes the filter
IsObservation_NonNegative(value) == isFinite(value) /\ value >= 0

\* lines 375-377 and 543-545: the coerced values that are finite and > 0
IsObservation(value) == isFinite(value) /\ value > 0

PositiveValues(feats) ==
    SelectSeq([i \in DOMAIN feats.items |-> FeatureValue(feats.items[i])], IsObservation)

\* Mutant: the loop index starts one step too far
EqualIntervalBreaks_FromStep(min, max, classCnt) ==
    [j \in 1..(classCnt + 1) |-> min * classCnt + (max - min) * j]

\* lines 559-565: min + step * i with step = (max - min) / classCount, each
\* break kept exactly as a number of units of 1 / classCount
EqualIntervalBreaks(min, max, classCnt) ==
    [j \in 1..(classCnt + 1) |-> min * classCnt + (max - min) * (j - 1)]

\* assignLevelsToFeatures(features, fallbackBreaks) for breaks kept in units of
\* 1 / classCount: value >= lower is value * classCount >= lower * classCount
RECURSIVE ForEachFeatureScaled(_, _, _, _)
ForEachFeatureScaled(items, scaled, classCnt, i) ==
    IF i > Len(items) THEN [items |-> items, error |-> "none"]
    ELSE IF items[i].tag # "object" THEN [items |-> items, error |-> "TypeError"]
    ELSE ForEachFeatureScaled(
             [items EXCEPT ![i] =
                 WithLevel(items[i], LevelFor(FeatureValue(items[i]) * classCnt, scaled))],
             scaled, classCnt, i + 1)

\* lines 557-569: the branch taken when calculateNaturalBreaks returned null
FallbackClassification(feats, vals, classCnt) ==
    LET fallbackBreaks == EqualIntervalBreaks(MathMin(vals), MathMax(vals), classCnt)
        r == ForEachFeatureScaled(feats.items, fallbackBreaks, classCnt, 1)
    IN  [hexData2Breaks |-> fallbackBreaks, features |-> Array(r.items), error |-> r.error]

\* lines 536-574: the refs after the call, the exception that left it, and the
\* call of calculateNaturalBreaks it made
ensureHexData2Levels(data, storedBreaks, arith) ==
    IF data = null \/ ~isArray(FeaturesField(data))
    THEN {[hexData2 |-> data, hexData2Breaks |-> storedBreaks, error |-> "none",
           branch |-> "not_loaded", called |-> FALSE]}
    ELSE LET feats == data.features
             vals == PositiveValues(feats)
             classCnt == Len(prideColors)
             Stored(b, r, br) ==
                 [hexData2 |-> [data EXCEPT !.features = r.features],
                  hexData2Breaks |-> b, error |-> r.error, branch |-> br]
             Called(run) ==
                 [called |-> TRUE, values |-> Array(vals), classCount |-> classCnt,
                  result |-> run.result]
         IN  IF Len(vals) = 0
             THEN {Stored(<<>>, assignLevelsToFeatures(feats, Array(<<>>)),
                          "no_positive_value") @@ [called |-> FALSE]}
             ELSE {IF run.result = thrown
                   THEN [hexData2 |-> data, hexData2Breaks |-> storedBreaks,
                         error |-> "TypeError", branch |-> "natural_breaks"] @@ Called(run)
                   ELSE IF run.result = null
                   THEN LET r == FallbackClassification(feats, vals, classCnt)
                        IN  Stored(r.hexData2Breaks, r, "equal_interval") @@ Called(run)
                   ELSE Stored(run.result.items, assignLevelsToFeatures(feats, run.result),
                               "natural_breaks") @@ Called(run) :
                      run \in calculateNaturalBreaks(Array(vals), classCnt, arith)}

\* lines 374-385: the summary statistics of a parsed response
StatsOf(json) ==
    LET feats == IF json # null /\ isArray(FeaturesField(json))
                 THEN json.features ELSE Array(<<>>)
        positiveValues == PositiveValues(feats)
    IN  [min |-> IF Len(positiveValues) > 0 THEN Num(MathMin(positiveValues)) ELSE Num(0),
         max |-> IF Len(positiveValues) > 0 THEN Num(MathMax(positiveValues)) ELSE Num(0),
         positiveCount |-> Len(positiveValues)]

(***************************************************************************)
(* Inputs                                                                  *)
(***************************************************************************)
SeqsUpTo(S, n) == UNION {[1..m -> S] : m \in 0..n}

EndToEndObservations == <<1, 2, 3, 10, 11, 12, 50, 51, 52>>

AllEqualObservations == <<5, 5, 5>>

ObservationArrays ==
    {Array(s) : s \in SeqsUpTo(1..MaxValue \cup {Infinity}, MaxLen)}
        \cup {Array(EndToEndObservations), Array(AllEqualObservations), undefined}

\* The classCount arguments of a direct call; the component passes
\* prideColors.length
ClassCounts == 1..MaxClassCount \cup {Len(prideColors)}

Feature(v) == [tag |-> "object", properties |-> [k \in {AttributeKey} |-> v]]

\* The attribute values of the enumerated features
AttributeValues ==
    {Num(n) : n \in (-1)..MaxAttribute} \cup
    {Num(Infinity), null, Str(<<>>), Str(<<"2">>), Str(<<"a", "b", "c">>)}

\* A feature with the attribute, without it, without properties, with null
\* properties, with a level already present, and a null entry
FeatureValues ==
    {Feature(v) : v \in AttributeValues} \cup
    {[tag |-> "object", properties |-> [k \in {"name"} |-> Str(<<"a">>)]],
     [tag |-> "object"],
     [tag |-> "object", properties |-> null],
     [tag |-> "object",
      properties |-> [k \in {AttributeKey, LevelKey} |->
                         IF k = AttributeKey THEN Num(1) ELSE Num(2)]],
     null}

FeatureArrays == {Array(s) : s \in SeqsUpTo(FeatureValues, MaxFeatures)}

\* The features of a direct call of assignLevelsToFeatures
ArgumentFeatures ==
    {Feature(Num(n)) : n \in 0..(MaxBreakValue + 1)} \cup
    {Feature(Num(Infinity)), Feature(Str(<<"a", "b", "c">>)), [tag |-> "object"], null}

ArgumentFeatureArrays == {Array(s) : s \in SeqsUpTo(ArgumentFeatures, MaxFeatures)}

BreaksArguments ==
    {Array(s) : s \in SeqsUpTo(1..MaxBreakValue, MaxBreaks)} \cup {null}

Arithmetics == {"exact", "double"}

\* Long feature collections, which reach the dynamic-programming path with
\* classCount = 6: RampLen values rising by 1, by 3 after position gap, and by 0
\* (a duplicate) after position dup
RampValue(gap, dup, i) ==
    i + (IF gap # 0 /\ i > gap THEN 2 ELSE 0) - (IF dup # 0 /\ i > dup THEN 1 ELSE 0)

Ramp(gap, dup) == [i \in 1..RampLen |-> Feature(Num(RampValue(gap, dup, i)))]

Reverse(s) == [i \in 1..Len(s) |-> s[Len(s) + 1 - i]]

Ramps ==
    LET plain == {Ramp(gap, dup) : gap \in 0..(RampLen - 1), dup \in 0..(RampLen - 1)}
        even == {Ramp(0, dup) : dup \in 0..(RampLen - 1)}
    IN  plain \cup {Reverse(r) : r \in plain}
              \cup {<<f>> \o r : f \in {null, Feature(Num(0))}, r \in even}
              \cup {r \o <<null>> : r \in even}

FeatureCollections == FeatureArrays \cup {Array(r) : r \in Ramps}

\* What the fetch of the GeoJSON file can give: a failure (HTTP status, network,
\* parse), or the parsed value
Responses ==
    {[ok |-> FALSE]} \cup
    {[ok |-> TRUE, json |-> j] :
        j \in {null, [tag |-> "object"]} \cup
              {[tag |-> "object", features |-> f] : f \in FeatureCollections}}

initialStats == [min |-> null, max |-> null, positiveCount |-> 0]

\* The refs of the component before anything is loaded (lines 238-244)
Unloaded ==
    /\ hexData2 = null
    /\ hexData2Stats = initialStats
    /\ hexData2Breaks = <<>>

(***************************************************************************)
(* The component: toggleDisplayMode and what it calls                      *)
(***************************************************************************)
Init ==
    /\ Unloaded
    /\ values = undefined
    /\ classCount = 0
    /\ breaks = undefined
    /\ features = Array(<<>>)
    /\ branch = "none"
    /\ arithmetic \in Arithmetics
    /\ error = "none"
    /\ pc = "mounted"

\* The component is mounted; the direct calls below run outside it
Mounted ==
    pc \in {"mounted", "loadHexData2_true", "loadHexData2_false", "ensureHexData2Levels"}

\* calculateNaturalBreaks is a function of its arguments: a call with the
\* arguments of the last call returns what that call returned
SameAsLastCall(r) ==
    r.called /\ r.values = values /\ r.classCount = classCount => r.result = breaks

\* The refs and the record of the last call after ensureHexData2Levels ended as r
Ensured(r) ==
    /\ SameAsLastCall(r)
    /\ hexData2' = r.hexData2
    /\ hexData2Breaks' = r.hexData2Breaks
    /\ branch' = r.branch
    /\ error' = r.error
    /\ IF r.called
       THEN values' = r.values /\ classCount' = r.classCount /\ breaks' = r.result
       ELSE UNCHANGED <<values, classCount, breaks>>

\* lines 360-399: loadHexData2 with the response of the fetch; an exception
\* of ensureHexData2Levels is caught and the load returns false
LoadHexData2(response) ==
    IF ~response.ok
    THEN /\ pc' = "loadHexData2_false"
         /\ error' = "none"
         /\ UNCHANGED <<hexData2, hexData2Stats, hexData2Breaks, branch,
                        values, classCount, breaks>>
    ELSE \E r \in ensureHexData2Levels(response.json, hexData2Breaks, arithmetic) :
             /\ Ensured(r)
             /\ hexData2Stats' = StatsOf(response.json)
             /\ pc' = IF r.error = "none" THEN "loadHexData2_true" ELSE "loadHexData2_false"

\* lines 1457-1461 and 1468-1472: ensureHexData2Levels() on the loaded data
EnsureHexData2Levels ==
    \E r \in ensureHexData2Levels(hexData2, hexData2Breaks, arithmetic) :
        /\ Ensured(r)
        /\ pc' = "ensureHexData2Levels"
        /\ UNCHANGED hexData2Stats

\* lines 1293-1299 and 1379-1382: toggleDisplayMode('map2') and ('grid2') load
\* the data when there is none
ToggleFlat2 ==
    /\ Mounted
    /\ hexData2 = null
    /\ \E response \in Responses : LoadHexData2(response)
    /\ UNCHANGED <<features, arithmetic>>

\* lines 1457-1479: toggleDisplayMode('cesium3d2') and ('maplibre3d2') load the
\* data, or classify the loaded data again
Toggle3d2 ==
    /\ Mounted
    /\ IF hexData2 = null
       THEN \E response \in Responses : LoadHexData2(response)
       ELSE EnsureHexData2Levels
    /\ UNCHANGED <<features, arithmetic>>

Next == ToggleFlat2 \/ Toggle3d2

Spec == Init /\ [][Next]_vars

(***************************************************************************)
(* Direct calls: calculateNaturalBreaks(values, classCount), then          *)
(* assignLevelsToFeatures on one feature per observation                   *)
(***************************************************************************)
FeaturesOf(vals) ==
    IF isArray(vals) THEN Array([i \in DOMAIN vals.items |-> Feature(Num(vals.items[i]))])
    ELSE Array(<<>>)

InitBreaks ==
    /\ Unloaded
    /\ values \in ObservationArrays
    /\ classCount \in ClassCounts
    /\ breaks = undefined
    /\ features = FeaturesOf(values)
    /\ branch = "none"
    /\ arithmetic \in Arithmetics
    /\ error = "none"
    /\ pc = "calculateNaturalBreaks"

CallCalculateNaturalBreaks ==
    /\ pc = "calculateNaturalBreaks"
    /\ \E r \in calculateNaturalBreaks(values, classCount, arithmetic) :
           /\ branch' = r.branch
           /\ IF r.result = thrown
              THEN breaks' = breaks /\ error' = "TypeError" /\ pc' = "thrown"
              ELSE breaks' = r.result /\ error' = error /\ pc' = "assignLevelsToFeatures"
    /\ UNCHANGED <<hexData2, hexData2Stats, hexData2Breaks,
                   values, classCount, features, arithmetic>>

CallAssignLevelsToFeatures ==
    /\ pc = "assignLevelsToFeatures"
    /\ LET r == assignLevelsToFeatures(features, breaks)
       IN  /\ features' = r.features
           /\ error' = r.error
    /\ pc' = "done"
    /\ UNCHANGED <<hexData2, hexData2Stats, hexData2Breaks,
                   values, classCount, breaks, branch, arithmetic>>

NextBreaks == CallCalculateNaturalBreaks \/ CallAssignLevelsToFeatures

SpecBreaks == InitBreaks /\ [][NextBreaks]_vars

\* Direct calls with observations that are no integers: the model's numbers
\* count a unit such as a tenth, 0.1, 0.2, 0.3, 0.4, 0.6 for TenthsObservations
TenthsObservations == <<1, 2, 3, 4, 6>>

InitRounded ==
    /\ Unloaded
    /\ values \in ObservationArrays \cup {Array(TenthsObservations)}
    /\ classCount \in ClassCounts \cup {Len(TenthsObservations) - 1}
    /\ breaks = undefined
    /\ features = FeaturesOf(values)
    /\ branch = "none"
    /\ arithmetic = "rounded"
    /\ error = "none"
    /\ pc = "calculateNaturalBreaks"

SpecRounded == InitRounded /\ [][NextBreaks]_vars

(***************************************************************************)
(* Direct calls: assignLevelsToFeatures(features, breaks)                  *)
(***************************************************************************)
InitAssign ==
    /\ Unloaded
    /\ values = undefined
    /\ classCount = 0
    /\ breaks \in BreaksArguments
    /\ features \in ArgumentFeatureArrays
    /\ branch = "none"
    /\ arithmetic = "exact"
    /\ error = "none"
    /\ pc = "assignLevelsToFeatures"

NextAssign == CallAssignLevelsToFeatures

SpecAssign == InitAssign /\ [][NextAssign]_vars

\* A second call of assignLevelsToFeatures with the same breaks, on the
\* features the first call left
CallAssignLevelsToFeaturesAgain ==
    /\ pc = "done"
    /\ LET r == assignLevelsToFeatures(features, breaks)
       IN  /\ features' = r.features
           /\ error' = r.error
    /\ pc' = "done_again"
    /\ UNCHANGED <<hexData2, hexData2Stats, hexData2Breaks,
                   values, classCount, breaks, branch, arithmetic>>

NextAssignTwice == CallAssignLevelsToFeatures \/ CallAssignLevelsToFeaturesAgain

SpecAssignTwice == InitAssign /\ [][NextAssignTwice]_vars

(***************************************************************************)
(* The equal-interval branch of ensureHexData2Levels, lines 557-569, entered *)
(* with breaks = null, for any classCount                                  *)
(***************************************************************************)
FallbackScenarioObservations == <<100, 10, 55>>

FallbackObservationArrays ==
    {Array(s) : s \in SeqsUpTo(1..MaxValue, MaxLen) \ {<<>>}}
        \cup {Array(FallbackScenarioObservations)}

InitFallback ==
    /\ values \in FallbackObservationArrays
    /\ classCount \in ClassCounts
    /\ hexData2 = [tag |-> "object", features |-> FeaturesOf(values)]
    /\ hexData2Stats = StatsOf(hexData2)
    /\ hexData2Breaks = <<>>
    /\ breaks = null
    /\ features = Array(<<>>)
    /\ branch = "none"
    /\ arithmetic = "exact"
    /\ error = "none"
    /\ pc = "fallback"

EqualIntervalFallback ==
    /\ pc = "fallback"
    /\ breaks = null
    /\ LET r == FallbackClassification(hexData2.features, values.items, classCount)
       IN  /\ hexData2Breaks' = r.hexData2Breaks
           /\ hexData2' = [hexData2 EXCEPT !.features = r.features]
           /\ error' = r.error
    /\ branch' = "equal_interval"
    /\ pc' = "fallback_done"
    /\ UNCHANGED <<hexData2Stats, values, classCount, breaks, features, arithmetic>>

NextFallback == EqualIntervalFallback

SpecFallback == InitFallback /\ [][NextFallback]_vars

\* Direct calls on features that carry other properties, a level, no
\* properties, null properties, and on null entries
FrameFeatures ==
    {Feature(Num(1)), Feature(Num(MaxBreakValue)),
     [tag |-> "object", id |-> Num(7),
      properties |-> [k \in {AttributeKey, "name"} |->
                         IF k = AttributeKey THEN Num(2) ELSE Str(<<"a">>)]],
     [tag |-> "object",
      properties |-> [k \in {AttributeKey, LevelKey} |->
                         IF k = AttributeKey THEN Num(1) ELSE Num(MaxBreaks)]],
     [tag |-> "object"],
     [tag |-> "object", properties |-> null],
     null}

InitFrame ==
    /\ Unloaded
    /\ values = undefined
    /\ classCount = 0
    /\ breaks \in BreaksArguments
    /\ features \in {Array(f) : f \in SeqsUpTo(FrameFeatures, MaxFeatures)}
    /\ branch = "none"
    /\ arithmetic = "exact"
    /\ error = "none"
    /\ pc = "assignLevelsToFeatures"

SpecFrame == InitFrame /\ [][NextAssignTwice]_vars

\* The component and the direct calls of assignLevelsToFeatures together
SpecLevels == (Init \/ InitAssign) /\ [][Next \/ NextAssign]_vars

(***************************************************************************)
(* Properties                                                              *)
(***************************************************************************)
\* A feature carries a level when it is an object whose properties hold one
HasLevel(f) ==
    /\ f.tag = "object"
    /\ "tag" \notin DOMAIN PropertiesOf(f)
    /\ LevelKey \in DOMAIN PropertiesOf(f)

LevelOf(f) == f.properties[LevelKey].value

NonDecreasing(b) == \A i \in 1..(Len(b) - 1) : b[i] <= b[i + 1]

\* The entries forEach reached: those before the first entry that is no object
Reached(items) == {i \in DOMAIN items : \A j \in 1..i : items[j].tag = "object"}

PositiveFinite(vals) ==
    /\ isArray(vals)
    /\ Len(vals.items) > 0
    /\ \A i \in DOMAIN vals.items : isFinite(vals.items[i]) /\ vals.items[i] > 0

Returned == pc \in {"assignLevelsToFeatures", "done"}

\* The call of calculateNaturalBreaks has ended, with a value or an exception
Ended == Returned \/ pc = "thrown"

\* C1: for a non-empty array of positive finite observations and classCount >= 1,
\* calculateNaturalBreaks returns classCount + 1 values, non-decreasing, the first
\* the minimum and the last the maximum observation, on both paths.
C1_BreaksShape ==
    (Ended /\ PositiveFinite(values)) =>
        /\ isArray(breaks)
        /\ Len(breaks.items) = classCount + 1
        /\ NonDecreasing(breaks.items)
        /\ breaks.items[1] = MathMin(values.items)
        /\ breaks.items[classCount + 1] = MathMax(values.items)

C1_Witness ==
    /\ Returned /\ PositiveFinite(values)
    /\ branch = "dynamic_programming" /\ arithmetic = "double"
    /\ classCount = MaxClassCount /\ Len(values.items) = MaxLen

\* The classes of the end-to-end scenario: {1,2,3}, {10,11,12}, {50,51,52}
ScenarioLevel(v) == IF v <= 3 THEN 1 ELSE IF v <= 12 THEN 2 ELSE 3

\* C2: classifying [1,2,3,10,11,12,50,51,52] with classCount = 3 gives level 1 to
\* 1,2,3, level 2 to 10,11,12 and level 3 to 50,51,52.
C2_ScenarioLevels ==
    (pc = "done" /\ values = Array(EndToEndObservations) /\ classCount = 3) =>
        \A i \in DOMAIN features.items :
            /\ HasLevel(features.items[i])
            /\ LevelOf(features.items[i]) = ScenarioLevel(FeatureValue(features.items[i]))

\* C3: for [1,2,3,10,11,12,50,51,52] and classCount = 3 the breaks are
\* [1, 3, 12, 52]: each interior break is the largest value of the class below.
C3_ScenarioBreaks ==
    (Returned /\ values = Array(EndToEndObservations) /\ classCount = 3) =>
        breaks = Array(<<1, 3, 12, 52>>)

\* C4: when the collection has no positive finite observation, after
\* ensureHexData2Levels every feature carries level 0 and the stored breaks are empty.
C4_EmptyInputLevelZero ==
    branch = "no_positive_value" =>
        /\ hexData2Breaks = <<>>
        /\ \A i \in DOMAIN hexData2.features.items :
              LET f == hexData2.features.items[i]
              IN  f.tag = "object" => HasLevel(f) /\ LevelOf(f) = 0

\* C5: assignLevelsToFeatures gives level 0 to every feature whose value is 0 or
\* whose attribute is missing, whatever breaks array it is called with.
C5_ZeroOrMissingLevelZero ==
    (pc = "done" /\ error = "none" /\ isArray(breaks)) =>
        \A i \in DOMAIN features.items :
            LET f == features.items[i]
            IN  (f.tag = "object" /\ FeatureValue(f) = 0) => HasLevel(f) /\ LevelOf(f) = 0

\* C6: a positive value above the last break, which lies in no interval, is
\* clamped to the last class: it receives level breaks.length - 1.
C6_ClampToLastClass ==
    (pc = "done" /\ error = "none" /\ isArray(breaks) /\ Len(breaks.items) >= 2) =>
        \A i \in DOMAIN features.items :
            LET f == features.items[i]
                v == FeatureValue(f)
                b == breaks.items
            IN  (/\ f.tag = "object" /\ v > 0 /\ v > b[Len(b)]
                 /\ \A j \in 1..(Len(b) - 1) : ~(b[j] <= v /\ v <= b[j + 1]))
                => HasLevel(f) /\ LevelOf(f) = Len(b) - 1

\* C7: no exception propagates out of calculateNaturalBreaks,
\* assignLevelsToFeatures or ensureHexData2Levels, for any input.
C7_NoException == error = "none"

\* C8: every level assignLevelsToFeatures writes is an integer in
\* 0..breaks.length - 1, and after ensureHexData2Levels on a collection with a
\* positive observation every level is in 0..6.
C8_LevelRange ==
    /\ (pc = "done" /\ isArray(breaks) /\ Len(breaks.items) >= 2) =>
           \A i \in Reached(features.items) :
               /\ HasLevel(features.items[i])
               /\ LevelOf(features.items[i]) \in 0..(Len(breaks.items) - 1)
    /\ (Mounted /\ branch \in {"natural_breaks", "equal_interval"}) =>
           /\ Len(hexData2Breaks) - 1 = Len(prideColors)
           /\ \A i \in Reached(hexData2.features.items) :
                  /\ HasLevel(hexData2.features.items[i])
                  /\ LevelOf(hexData2.features.items[i]) \in 0..6

C8_Witness ==
    /\ pc = "ensureHexData2Levels" /\ branch = "natural_breaks" /\ error = "none"
    /\ \E i \in DOMAIN hexData2.features.items :
           LevelOf(hexData2.features.items[i]) = Len(prideColors)
    /\ \E i \in DOMAIN hexData2.features.items :
           LevelOf(hexData2.features.items[i]) = 0

\* The first interval [b[m], b[m + 1]] that holds v, as a level; 0 when none does
FirstInterval(v, b) ==
    LET holding == {m \in 1..(Len(b) - 1) : b[m] <= v /\ v <= b[m + 1]}
    IN  IF holding = {} THEN 0 ELSE CHOOSE m \in holding : \A x \in holding : m <= x

\* C9: a positive value equal to an interior break breaks[i] receives the level of
\* the first interval that holds it; for non-decreasing breaks that is the lower
\* of the two adjacent classes, i, or a lower one still when the breaks below
\* breaks[i] equal it.
C9_BoundaryRule ==
    (pc = "done" /\ isArray(breaks) /\ Len(breaks.items) >= 2) =>
        \A i \in Reached(features.items) : \A j \in 2..(Len(breaks.items) - 1) :
            LET f == features.items[i]
                v == FeatureValue(f)
                b == breaks.items
            IN  (v > 0 /\ v = b[j]) =>
                    /\ HasLevel(f)
                    /\ LevelOf(f) = FirstInterval(v, b)
                    /\ NonDecreasing(b) => LevelOf(f) \in 1..(j - 1)
                    /\ (NonDecreasing(b) /\ b[j - 1] < b[j]) => LevelOf(f) = j - 1

C9_Witness ==
    /\ pc = "done" /\ isArray(breaks) /\ Len(breaks.items) = MaxBreaks
    /\ NonDecreasing(breaks.items) /\ breaks.items[1] < breaks.items[2]
    /\ breaks.items[2] < breaks.items[3]
    /\ \E i \in Reached(features.items) :
           /\ FeatureValue(features.items[i]) = breaks.items[2]
           /\ LevelOf(features.items[i]) = 1

\* The finite observations of an array, as a set
FiniteValues(vals) == {x \in Range(vals.items) : isFinite(x)}

\* The j-th smallest element of a set of numbers
Smallest(S, j) == CHOOSE x \in S : Cardinality({y \in S : y <= x}) = j

\* C10: calculateNaturalBreaks takes the degenerate path exactly when the number
\* of distinct observation values is <= classCount, however many duplicates there
\* are, and then returns the distinct values in ascending order followed by the
\* maximum, repeated up to classCount + 1 entries.
C10_DegeneratePath ==
    (Returned /\ isArray(values) /\ FiniteValues(values) # {}) =>
        LET distinct == FiniteValues(values)
            u == Cardinality(distinct)
        IN  /\ (branch = "degenerate") <=> (u <= classCount)
            /\ branch = "degenerate" =>
                  breaks = Array([j \in 1..(classCount + 1) |->
                                    IF j <= u THEN Smallest(distinct, j)
                                    ELSE Smallest(distinct, u)])

C10_Witness ==
    /\ Returned /\ branch = "degenerate" /\ isArray(values)
    /\ Len(values.items) > classCount
    /\ Cardinality(FiniteValues(values)) = classCount
    /\ classCount = MaxClassCount

\* C11: when all observations equal one positive value v, the breaks are
\* classCount + 1 entries all equal to v, and every feature with value v receives
\* level 1.
C11_AllEqual ==
    (Returned /\ PositiveFinite(values) /\ Cardinality(Range(values.items)) = 1) =>
        LET v == values.items[1]
        IN  /\ breaks = Array([j \in 1..(classCount + 1) |-> v])
            /\ pc = "done" =>
                   \A i \in DOMAIN features.items :
                       FeatureValue(features.items[i]) = v =>
                           /\ HasLevel(features.items[i])
                           /\ LevelOf(features.items[i]) = 1

C11_Witness ==
    /\ pc = "done" /\ values = Array(AllEqualObservations)
    /\ classCount = Len(prideColors)
    /\ Len(breaks.items) = 7
    /\ \A i \in DOMAIN features.items : LevelOf(features.items[i]) = 1

\* C12: calculateNaturalBreaks returns null when its argument is no array, is
\* empty or holds no finite value, and an array of breaks in every other case.
C12_NullReturn ==
    Ended =>
        LET nothing == \/ ~isArray(values)
                       \/ Len(values.items) = 0
                       \/ \A i \in DOMAIN values.items : values.items[i] = Infinity
        IN  /\ nothing => breaks = null
            /\ ~nothing => isArray(breaks) /\ Len(breaks.items) > 0

C12_Witness ==
    /\ Returned /\ breaks = null /\ branch = "no_finite_value"
    /\ Len(values.items) = MaxLen

\* The level of every entry of a features array, -1 where there is none
LevelsOf(feats) ==
    [i \in DOMAIN feats.items |->
        IF HasLevel(feats.items[i]) THEN LevelOf(feats.items[i]) ELSE -1]

\* C13: assignLevelsToFeatures is idempotent: a second run with the same breaks
\* on the same features leaves every feature's level as the first run left it.
C13_Idempotent ==
    [][(pc = "done" /\ pc' = "done_again") => LevelsOf(features') = LevelsOf(features)]_vars

C13_Witness ==
    /\ pc = "done_again" /\ error = "none" /\ Len(features.items) = MaxFeatures
    /\ \E i \in DOMAIN features.items : LevelsOf(features)[i] >= 2
    /\ \E i \in DOMAIN features.items : LevelsOf(features)[i] = 0

\* C14: the equal-interval fallback gives classCount + 1 breaks,
\* breaks[i] = min + (max - min) * i / classCount, non-decreasing, the first the
\* minimum and the last the maximum observation; min 10, max 100 and classCount 3
\* give [10, 40, 70, 100].  The stored breaks are in units of 1 / classCount.
C14_EqualIntervalFallback ==
    pc = "fallback_done" =>
        LET obs == Range(values.items)
            min == Smallest(obs, 1)
            max == Smallest(obs, Cardinality(obs))
            b == hexData2Breaks
        IN  /\ Len(b) = classCount + 1
            /\ \A i \in 0..classCount : b[i + 1] = classCount * min + (max - min) * i
            /\ NonDecreasing(b)
            /\ b[1] = classCount * min
            /\ b[classCount + 1] = classCount * max
            /\ (min = 10 /\ max = 100 /\ classCount = 3) =>
                   b = [j \in 1..4 |-> 3 * <<10, 40, 70, 100>>[j]]

C14_Witness ==
    /\ pc = "fallback_done" /\ values = Array(FallbackScenarioObservations)
    /\ classCount = 3
    /\ hexData2Breaks[2] = 3 * 40

\* The attribute of a feature as the record schema gives it: a number, a
\* numeral string, or something that yields no number
AttributeOf(f) ==
    IF f.tag = "object" /\ "properties" \in DOMAIN f /\ f.properties # null
       /\ AttributeKey \in DOMAIN f.properties
    THEN f.properties[AttributeKey] ELSE undefined

\* The attribute is a finite number > 0, or a numeral string of one
YieldsObservation(f) ==
    LET a == AttributeOf(f)
    IN  \/ a.tag = "number" /\ a.value > 0 /\ a.value # Infinity
        \/ a.tag = "string" /\ a.chars # <<>>
              /\ (\A i \in DOMAIN a.chars : a.chars[i] \in Range(Digits))
              /\ DecimalValue(a.chars) > 0

ObservationOf(f) ==
    IF AttributeOf(f).tag = "number" THEN AttributeOf(f).value
    ELSE DecimalValue(AttributeOf(f).chars)

\* C15: the observations built from a feature collection are the coerced values
\* that are finite and > 0, one per such feature, in order; a feature whose
\* attribute is missing, null, non-numeric, zero or negative contributes none.
C15_ObservationFilter ==
    (Mounted /\ hexData2 # null /\ isArray(FeaturesField(hexData2))) =>
        LET contributing == SelectSeq(hexData2.features.items, YieldsObservation)
            observations == [i \in DOMAIN contributing |-> ObservationOf(contributing[i])]
        IN  /\ branch = "no_positive_value" <=> observations = <<>>
            /\ branch \in {"natural_breaks", "equal_interval"} =>
                   values = Array(observations)

C15_Witness ==
    /\ Mounted /\ branch = "natural_breaks" /\ Len(values.items) = 1
    /\ Len(hexData2.features.items) = MaxFeatures
    /\ \E i \in DOMAIN hexData2.features.items :
           AttributeOf(hexData2.features.items[i]) = Str(<<"2">>)
    /\ \E i \in DOMAIN hexData2.features.items :
           AttributeOf(hexData2.features.items[i]) \in {Num(-1), Num(Infinity), null}

\* C16: after a successful loadHexData2, positiveCount is the number of features
\* whose coerced value is finite and > 0, and min and max are the smallest and
\* the largest of those values, both 0 when there are none.
C16_SummaryStatistics ==
    pc = "loadHexData2_true" =>
        LET feats == IF hexData2 # null /\ isArray(FeaturesField(hexData2))
                     THEN hexData2.features.items ELSE <<>>
            contributing == SelectSeq(feats, YieldsObservation)
            obs == {ObservationOf(contributing[i]) : i \in DOMAIN contributing}
        IN  /\ hexData2Stats.positiveCount = Len(contributing)
            /\ hexData2Stats.min = Num(IF obs = {} THEN 0 ELSE Smallest(obs, 1))
            /\ hexData2Stats.max =
                   Num(IF obs = {} THEN 0 ELSE Smallest(obs, Cardinality(obs)))

C16_Witness ==
    /\ pc = "loadHexData2_true"
    /\ hexData2Stats.positiveCount = RampLen
    /\ Len(hexData2.features.items) = RampLen + 1
    /\ hexData2Stats.min = Num(1) /\ hexData2Stats.max = Num(RampLen - 1)

\* The sorted finite observations of the last call
SortedValues == SortAscending(SelectSeq(values.items, isFinite))

\* The sum of sorted[lo..hi], and of the squares of count * x - total over it
RECURSIVE SumOf(_, _, _)
SumOf(sorted, lo, hi) == IF lo > hi THEN 0 ELSE sorted[lo] + SumOf(sorted, lo + 1, hi)

RECURSIVE SquaredDistances(_, _, _, _, _)
SquaredDistances(sorted, lo, hi, count, total) ==
    IF lo > hi THEN 0
    ELSE (count * sorted[lo] - total) * (count * sorted[lo] - total)
             + SquaredDistances(sorted, lo + 1, hi, count, total)

\* The sum of the squared deviations of sorted[lo..hi] from their mean, in units
\* of 1 / unit: the sum of ((count * x - total) / count)^2
ClassSSD(sorted, lo, hi, unit) ==
    LET count == hi - lo + 1
    IN  (unit \div count)
            * (SquaredDistances(sorted, lo, hi, count, SumOf(sorted, lo, hi)) \div count)

\* The total over the classes that start at the indices of starts and together
\* cover sorted[1..hi]
RECURSIVE TotalSSD(_, _, _, _)
TotalSSD(sorted, starts, hi, unit) ==
    IF starts = {} THEN 0
    ELSE LET lo == CHOOSE x \in starts : \A y \in starts : y <= x
         IN  ClassSSD(sorted, lo, hi, unit) + TotalSSD(sorted, starts \ {lo}, lo - 1, unit)

\* Every way to split sorted[1..i] into c contiguous non-empty classes, as the
\* set of the classes' first indices
Splits(i, c) == {{1} \cup cuts : cuts \in {X \in SUBSET (2..i) : Cardinality(X) = c - 1}}

MinimalTotal(sorted, i, c, unit) ==
    LET totals == {TotalSSD(sorted, starts, i, unit) : starts \in Splits(i, c)}
    IN  CHOOSE t \in totals : \A u \in totals : t <= u

\* C17: on the dynamic-programming path varianceCombinations[i][c] is the least
\* total within-class sum of squared deviations over all splits of the first i
\* sorted observations into c contiguous non-empty classes, and the partition
\* backtracking recovers from (n, classCount), whose lower limits give the
\* returned breaks, attains the least total.
C17_OptimalPartition ==
    (Returned /\ branch = "dynamic_programming") =>
        LET sorted == SortedValues
            n == Len(sorted)
            unit == Denominator(n)
            T == JenksTables(sorted, classCount)
            recovered == BacktrackLimits(T, arithmetic, [c \in 1..classCount |-> 0],
                                         n, classCount)
        IN  /\ \A c \in 1..classCount : \A i \in c..n :
                   T.varianceCombinations[i][c] = MinimalTotal(sorted, i, c, unit)
            /\ \A limits \in recovered :
                   /\ Range(limits) \in Splits(n, classCount)
                   /\ TotalSSD(sorted, Range(limits), n, unit)
                          = MinimalTotal(sorted, n, classCount, unit)
            /\ \E limits \in recovered :
                   \A c \in 1..classCount : breaks.items[c] = sorted[limits[c]]

C17_Witness ==
    /\ Returned /\ branch = "dynamic_programming" /\ classCount = MaxClassCount
    /\ Len(SortedValues) = MaxLen
    /\ Cardinality(Range(SortedValues)) = MaxLen
    /\ breaks.items[2] < breaks.items[3]

\* The split indices j in c..i whose total, the deviation of sorted[j..i] plus
\* the least total of sorted[1..j - 1] in c - 1 classes, is the least for (i, c)
MinimalSplits(sorted, i, c, unit) ==
    {j \in c..i : ClassSSD(sorted, j, i, unit) + MinimalTotal(sorted, j - 1, c - 1, unit)
                      = MinimalTotal(sorted, i, c, unit)}

C19_BacktrackedLowerLimits ==
    (Returned /\ branch = "dynamic_programming") =>
        LET sorted == SortedValues
            n == Len(sorted)
            T == JenksTables(sorted, classCount)
            recovered == BacktrackLimits(T, arithmetic, [c \in 1..classCount |-> 0],
                                         n, classCount)
            ClassOf(limits, c) ==
                limits[c]..(IF c = classCount THEN n ELSE limits[c + 1] - 1)
        IN  /\ \E limits \in recovered :
                   /\ limits[classCount] \in LowerLimits(T, arithmetic, n, classCount)
                   /\ \A c \in 1..(classCount - 1) :
                          /\ limits[c] \in LowerLimits(T, arithmetic, limits[c + 1] - 1, c)
                          /\ breaks.items[c + 1] = sorted[limits[c + 1]]
                          /\ \A x \in ClassOf(limits, c + 1) :
                                 breaks.items[c + 1] <= sorted[x]
            /\ \A j \in DOMAIN breaks.items : breaks.items[j] \in Range(values.items)

C19_Witness ==
    /\ Returned /\ branch = "dynamic_programming"
    /\ values = Array(EndToEndObservations) /\ classCount = 3
    /\ breaks = Array(<<1, 10, 50, 52>>)

\* C20: levels are monotone in the value: for non-decreasing breaks and two
\* features with positive values v1 <= v2, both within
\* [breaks[0], breaks[last]], the level of the first is at most the level of the
\* second, so each level covers one contiguous range of values.  The features
\* compared are those the call reached.
C20_LevelMonotone ==
    (pc = "done" /\ isArray(breaks) /\ Len(breaks.items) >= 2
        /\ NonDecreasing(breaks.items)) =>
        LET b == breaks.items
            Within(v) == v > 0 /\ b[1] <= v /\ v <= b[Len(b)]
        IN  \A i1, i2 \in Reached(features.items) :
                LET f1 == features.items[i1]
                    f2 == features.items[i2]
                IN  (Within(FeatureValue(f1)) /\ Within(FeatureValue(f2))
                        /\ FeatureValue(f1) <= FeatureValue(f2)) =>
                        /\ HasLevel(f1) /\ HasLevel(f2)
                        /\ LevelOf(f1) >= 1
                        /\ LevelOf(f1) <= LevelOf(f2)

C20_Witness ==
    /\ pc = "done" /\ error = "none" /\ isArray(breaks)
    /\ Len(breaks.items) = MaxBreaks /\ NonDecreasing(breaks.items)
    /\ \E i1, i2 \in DOMAIN features.items :
           /\ FeatureValue(features.items[i1]) < FeatureValue(features.items[i2])
           /\ FeatureValue(features.items[i2]) = breaks.items[MaxBreaks]
           /\ LevelsOf(features)[i1] = 1
           /\ LevelsOf(features)[i2] = MaxBreaks - 1

\* C21: after ensureHexData2Levels on a collection with a positive finite
\* observation, every feature whose value is positive and finite has a level in
\* 1..classCount, and every other feature has level 0.
C21_PositiveLevelAtLeastOne ==
    (Mounted /\ branch \in {"natural_breaks", "equal_interval"}) =>
        \A i \in DOMAIN hexData2.features.items :
            LET f == hexData2.features.items[i]
            IN  f.tag = "object" =>
                    /\ HasLevel(f)
                    /\ IF YieldsObservation(f)
                       THEN LevelOf(f) \in 1..Len(prideColors)
                       ELSE LevelOf(f) = 0

\* C22: when the observations have more distinct values than classCount, after
\* calculateNaturalBreaks and assignLevelsToFeatures every level 1..classCount
\* is the level of at least one observation.
C22_NoEmptyClass ==
    (pc = "done" /\ isArray(values) /\ PositiveFinite(values)
        /\ Cardinality(Range(values.items)) > classCount) =>
        \A level \in 1..classCount :
            \E i \in DOMAIN features.items : LevelsOf(features)[i] = level

\* The arrays one exchange of neighbours away from s, and s reversed
Rearrangements(s) ==
    {[s EXCEPT ![i] = s[i + 1], ![i + 1] = s[i]] : i \in 1..(Len(s) - 1)}
        \cup {Reverse(s)}

\* C24: calculateNaturalBreaks depends only on the multiset of observations:
\* a permutation of the array gives the same breaks.  Exchanges of neighbours
\* generate every permutation, and every array of the bounds is an argument.
C24_PermutationInvariant ==
    (pc = "assignLevelsToFeatures" /\ isArray(values)) =>
        \A permuted \in Rearrangements(values.items) :
            [result |-> breaks, branch |-> branch]
                \in calculateNaturalBreaks(Array(permuted), classCount, arithmetic)

C24_Witness ==
    /\ pc = "assignLevelsToFeatures" /\ branch = "dynamic_programming"
    /\ arithmetic = "exact" /\ Len(values.items) = MaxLen
    /\ \E i \in 1..(MaxLen - 1) : values.items[i] > values.items[i + 1]
    /\ NonDecreasing(breaks.items) /\ breaks.items[1] < breaks.items[2]

\* What a feature holds besides the level: its members other than properties,
\* and its properties other than pride_level
MembersOf(f) == [k \in DOMAIN f \ {"properties"} |-> f[k]]

OtherProperties(f) ==
    LET properties == PropertiesOf(f)
        keys == IF "tag" \in DOMAIN properties THEN {} ELSE DOMAIN properties \ {LevelKey}
    IN  [k \in keys |-> properties[k]]

\* C25: assignLevelsToFeatures changes nothing of a feature except adding or
\* overwriting pride_level: the value attribute and every other property keep
\* their values, the number and the order of the features stay, and with fewer
\* than 2 breaks no feature is changed at all.
C25_Frame ==
    [][(pc \in {"assignLevelsToFeatures", "done"} /\ pc' # pc) =>
          /\ Len(features'.items) = Len(features.items)
          /\ \A i \in DOMAIN features.items :
                 /\ MembersOf(features'.items[i]) = MembersOf(features.items[i])
                 /\ OtherProperties(features'.items[i]) = OtherProperties(features.items[i])
          /\ (~isArray(breaks) \/ Len(breaks.items) < 2) => features' = features]_vars

C25_Witness ==
    /\ pc = "done_again" /\ error = "none" /\ Len(features.items) = MaxFeatures
    /\ \E i \in DOMAIN features.items :
           /\ "name" \in DOMAIN OtherProperties(features.items[i])
           /\ LevelsOf(features)[i] >= 1
    /\ \E i \in DOMAIN features.items :
           /\ OtherProperties(features.items[i]) = <<>>
           /\ LevelsOf(features)[i] = 0

\* C26: ensureHexData2Levels is idempotent: called again on the loaded feature
\* collection, as the cesium3d2 and maplibre3d2 branches do, it leaves the stored
\* breaks and the level of every feature as they were.
C26_EnsureIdempotent ==
    [][(Mounted /\ hexData2 # null /\ pc' = "ensureHexData2Levels") =>
          /\ hexData2Breaks' = hexData2Breaks
          /\ isArray(FeaturesField(hexData2)) =>
                 LevelsOf(hexData2'.features) = LevelsOf(hexData2.features)]_vars

C26_Witness ==
    /\ pc = "ensureHexData2Levels" /\ branch = "natural_breaks"
    /\ arithmetic = "double" /\ error = "none"
    /\ Len(hexData2.features.items) = RampLen
    /\ hexData2Breaks[1] < hexData2Breaks[2]
    /\ \A i \in DOMAIN hexData2.features.items : LevelsOf(hexData2.features)[i] >= 1

\* C27: after a successful loadHexData2 with a positive observation the stored
\* statistics and the stored breaks agree: min is hexData2Breaks[0], max is the
\* last entry, and there are exactly 7 breaks.
C27_StatsAgreeWithBreaks ==
    (pc = "loadHexData2_true" /\ hexData2Stats.positiveCount > 0) =>
        /\ Len(hexData2Breaks) = 7
        /\ hexData2Stats.min = Num(hexData2Breaks[1])
        /\ hexData2Stats.max = Num(hexData2Breaks[7])

C27_Witness ==
    /\ pc = "loadHexData2_true" /\ branch = "natural_breaks"
    /\ hexData2Stats.positiveCount = RampLen
    /\ hexData2Stats.max = Num(RampLen + 2)
    /\ hexData2Breaks[7] = RampLen + 2
    /\ hexData2Breaks[6] < RampLen + 2

C29_BacktrackWithinBounds ==
    (isArray(values) /\ Cardinality(FiniteValues(values)) > classCount) =>
        LET sorted == SortedValues
            n == Len(sorted)
            EndOf(limits, count) == IF count = classCount THEN n ELSE limits[count + 1] - 1
        IN  /\ \A negative \in ComputedNegative(sorted, arithmetic) :
                   \A limits \in BacktrackLimits(JenksTablesWith(sorted, classCount, negative),
                                                 arithmetic, [c \in 1..classCount |-> 0],
                                                 n, classCount) :
                       \A count \in 1..classCount :
                           /\ EndOf(limits, count) \in count..n
                           /\ limits[count] \in count..EndOf(limits, count)
                           /\ limits[count] \in DOMAIN sorted
            /\ Ended => branch = "dynamic_programming" /\ error = "none"

\* C30: in exact arithmetic the post-processing of the dynamic-programming path
\* changes nothing: the breaks backtracking writes are non-decreasing already
\* and the first of them is the smallest observation, so breaks[0] = sorted[0]
\* and the clamp leave every value as it is, and no segment has a negative
\* deviation, so the scan skips none.
C30_PostProcessingNoOp ==
    (Returned /\ branch = "dynamic_programming" /\ arithmetic = "exact") =>
        LET sorted == SortedValues
            n == Len(sorted)
            unit == Denominator(n)
            T == JenksTables(sorted, classCount)
            recovered == BacktrackLimits(T, arithmetic, [c \in 1..classCount |-> 0],
                                         n, classCount)
            Written(limits) ==
                [j \in 1..(classCount + 1) |->
                    IF j = classCount + 1 THEN sorted[n] ELSE BreakAt(sorted, limits[j])]
        IN  /\ \A limits \in recovered :
                   /\ NonDecreasing(Written(limits))
                   /\ Written(limits)[1] = sorted[1]
                   /\ [Written(limits) EXCEPT ![1] = sorted[1]] = Written(limits)
                   /\ FinishBreaks(Written(limits), sorted) = Written(limits)
            /\ \E limits \in recovered : breaks.items = Written(limits)
            /\ \A item \in 1..n : \A i \in 1..item :
                   Deviation(PrefixSumSquares(sorted, item) - PrefixSumSquares(sorted, i - 1),
                             PrefixSum(sorted, item) - PrefixSum(sorted, i - 1),
                             item - i + 1, unit) >= 0

C30_Witness ==
    /\ Returned /\ branch = "dynamic_programming" /\ arithmetic = "exact"
    /\ classCount = MaxClassCount /\ Len(SortedValues) = MaxLen
    /\ breaks.items[1] < breaks.items[2]
    /\ breaks.items[classCount] = breaks.items[classCount + 1]
====
